---- MODULE Spec2Model ----
(***************************************************************************)
(* Model of parsers/urbansound8k_parser.py: process_metadata loads the     *)
(* metadata table, and for each row, in table order, builds one JAMS       *)
(* document (create_snippet_jam) and saves it under a name derived from    *)
(* the row's slice_file_name.                                              *)
(*                                                                         *)
(* Strings that the program takes apart (file names, paths) are sequences  *)
(* of one-character strings.  A start/end cell of the table is a tagged    *)
(* value: a number, or a text that is not a number.  Seconds are integers. *)
(***************************************************************************)
EXTENDS Integers, Sequences, FiniteSets, TLC

VARIABLES
    table,     \* the rows of the metadata file on disk (the input)
    pc,        \* position in process_metadata: load, construct, save, done, error
    err,       \* the exception that ended the run ("" while none)
    df,        \* the loaded table (<<>> before pd.read_csv returned)
    idx,       \* 0-based position of the loop of line 100
    jam,       \* the document of the current iteration (NoJam before the first)
    disk,      \* out_dir: path -> content of the file at that path
    run,       \* number of the current call of process_metadata
    disk0,     \* history: disk when the current call started
    log,       \* history: constructions and writes of the current call, in order
    docs       \* history: the documents built by the current call, in order

vars == <<table, pc, err, df, idx, jam, disk, run, disk0, log, docs>>

(***************************************************************************)
(* Bounds                                                                  *)
(***************************************************************************)
MaxRows == 3
MaxRuns == 2

(***************************************************************************)
(* Strings                                                                 *)
(***************************************************************************)
WAV == <<".", "w", "a", "v">>
JAMS_EXT == <<".", "j", "a", "m", "s">>
OutDir == <<"o">>

\* s.startswith(p)
StartsWith(s, p) == Len(s) >= Len(p) /\ SubSeq(s, 1, Len(p)) = p

\* s.endswith(p)
EndsWith(s, p) == Len(s) >= Len(p) /\ SubSeq(s, Len(s) - Len(p) + 1, Len(s)) = p

\* str.replace(old, new) for a non-empty old: every non-overlapping
\* occurrence of old, scanning from the left, is replaced by new.
RECURSIVE replace(_, _, _)
replace(s, old, new) ==
    IF Len(s) < Len(old) THEN s
    ELSE IF SubSeq(s, 1, Len(old)) = old
         THEN new \o replace(SubSeq(s, Len(old) + 1, Len(s)), old, new)
         ELSE <<Head(s)>> \o replace(Tail(s), old, new)

\* os.path.join(a, b) on a POSIX system
path_join(a, b) ==
    IF StartsWith(b, <<"/">>) THEN b
    ELSE IF a = <<>> \/ EndsWith(a, <<"/">>) THEN a \o b
    ELSE a \o <<"/">> \o b

(***************************************************************************)
(* The input table                                                         *)
(***************************************************************************)
\* A start/end cell: a number of seconds, or a text that is not a number.
Num(n) == [isnum |-> TRUE, n |-> n, s |-> ""]
Str(s) == [isnum |-> FALSE, n |-> 0, s |-> s]

MkRow(name, class, start, end, fold) ==
    [slice_file_name |-> name, class |-> class, start |-> start,
     end |-> end, fold |-> fold]

Columns == {"slice_file_name", "class", "start", "end", "fold"}

Names == { <<"a">> \o WAV, <<"b">> \o WAV, <<"a">> \o WAV \o WAV,
           <<"a">> \o JAMS_EXT \o WAV }

\* Rows of the table: every name with the usual cells, and one name with
\* another class, a start after the end, a start that is no number, another
\* fold.
RowDomain ==
    { MkRow(nm, "dog_bark", Num(0), Num(4), 5) : nm \in Names }
    \cup { MkRow(<<"a">> \o WAV, "siren", Num(0), Num(4), 5),
           MkRow(<<"a">> \o WAV, "dog_bark", Num(5), Num(4), 5),
           MkRow(<<"a">> \o WAV, "dog_bark", Str("abc"), Num(4), 5),
           MkRow(<<"a">> \o WAV, "dog_bark", Num(0), Num(4), 1) }

Tables == UNION { [1..n -> RowDomain] : n \in 0..MaxRows }

(***************************************************************************)
(* The document                                                            *)
(***************************************************************************)
EmptyMap == [k \in {} |-> 0]

\* jams.JAMS()
JAMS == [annotations |-> <<>>,
         file_metadata |-> [title |-> <<>>, artist |-> "", release |-> "",
                            duration |-> "None"],
         sandbox |-> EmptyMap]

\* jams.Curator(name=..., email=...); also the shape of an annotator entry
Curator(name, email) == [name |-> name, email |-> email]

\* the citation of lines 81-83
AnnotationRules ==
    "See: J. Salamon, C. Jacoby and J. P. Bello, \"A Dataset and Taxonomy for Urban Sound Research\", in Proc. 22nd ACM International Conference on Multimedia, Orlando, USA, Nov. 2014."

\* jams.Annotation(namespace)
Annotation(namespace) ==
    [namespace |-> namespace, data |-> <<>>, duration |-> "None",
     annotation_metadata |-> [annotation_tools |-> "",
                              curator |-> Curator("", ""),
                              annotator |-> EmptyMap, version |-> "",
                              corpus |-> "", annotation_rules |-> "",
                              data_source |-> "", validation |-> ""],
     sandbox |-> EmptyMap]

\* ann.append(time=..., duration=..., value=..., confidence=...)
append(ann, time, duration, value, confidence) ==
    [ann EXCEPT !.data = Append(@, [time |-> time, duration |-> duration,
                                    value |-> value, confidence |-> confidence])]

\* ann.sandbox.update(**row)
update(sandbox, row) ==
    [k \in DOMAIN sandbox \cup DOMAIN row |->
        IF k \in DOMAIN row THEN row[k] ELSE sandbox[k]]

\* row['end'] - row['start'] raises TypeError unless both are numbers
SubRaises(row) == ~(row.end.isnum /\ row.start.isnum)

\* row['end'] - row['start']
Sub(row) == row.end.n - row.start.n

fill_file_metadata_clamped(j, row) ==
    [j EXCEPT !.file_metadata.title = row.slice_file_name,
              !.file_metadata.release = "1.0",
              !.file_metadata.duration = IF Sub(row) < 0 THEN 0 ELSE Sub(row),
              !.file_metadata.artist = "UrbanSound8K"]

fill_file_metadata(j, row) ==
    [j EXCEPT !.file_metadata.title = row.slice_file_name,
              !.file_metadata.release = "1.0",
              !.file_metadata.duration = Sub(row),
              !.file_metadata.artist = "UrbanSound8K"]

fill_annotation_metadata_used(ann, row) ==
    [ann EXCEPT
        !.annotation_metadata =
            [annotation_tools |-> "Sonic Visualiser",
             curator |-> Curator("Justin Salamon", "justin.salamon@nyu.edu"),
             annotator |->
                 [annotators |->
                     <<Curator("Justin Salamon", "justin.salamon@nyu.edu"),
                       Curator("Christopher Jacoby",
                               "christopher.jacoby@gmail.com")>>],
             version |-> "1.0",
             corpus |-> "UrbanSound8K",
             annotation_rules |-> AnnotationRules,
             data_source |->
                 "https://serv.cusp.nyu.edu/projects/urbansounddataset/",
             validation |-> ""],
        !.sandbox = update(@, [k \in DOMAIN row \ {"fold"} |-> row[k]])]

fill_annotation_metadata(ann, row) ==
    [ann EXCEPT
        !.annotation_metadata =
            [annotation_tools |-> "Sonic Visualiser",
             curator |-> Curator("Justin Salamon", "justin.salamon@nyu.edu"),
             annotator |->
                 [annotators |->
                     <<Curator("Justin Salamon", "justin.salamon@nyu.edu"),
                       Curator("Christopher Jacoby",
                               "christopher.jacoby@gmail.com")>>],
             version |-> "1.0",
             corpus |-> "UrbanSound8K",
             annotation_rules |-> AnnotationRules,
             data_source |->
                 "https://serv.cusp.nyu.edu/projects/urbansounddataset/",
             validation |-> ""],
        !.sandbox = update(@, row)]

NoJam == JAMS

\* A create_snippet_jam that keeps one document for the whole loop instead
\* of building a new one per row.
create_snippet_jam_shared(row) ==
    LET ann0 == Annotation("tag_open")
        ann1 == append(ann0, 0, Sub(row), row.class, 1)
        ann2 == [ann1 EXCEPT !.duration = Sub(row)]
        jam1 == fill_file_metadata(jam, row)
        ann3 == fill_annotation_metadata(ann2, row)
    IN  [jam1 EXCEPT !.annotations = Append(@, ann3)]

\* A create_snippet_jam that places the event at the clip's start.
create_snippet_jam_at_start(row) ==
    LET ann0 == Annotation("tag_open")
        ann1 == append(ann0, row.start.n, Sub(row), row.class, 1)
        ann2 == [ann1 EXCEPT !.duration = Sub(row)]
        jam1 == fill_file_metadata(JAMS, row)
        ann3 == fill_annotation_metadata(ann2, row)
    IN  [jam1 EXCEPT !.annotations = Append(@, ann3)]

create_snippet_jam(row) ==
    LET jam0 == JAMS
        ann0 == Annotation("tag_open")
        ann1 == append(ann0, 0, Sub(row), row.class, 1)
        ann2 == [ann1 EXCEPT !.duration = Sub(row)]
        jam1 == fill_file_metadata(jam0, row)
        ann3 == fill_annotation_metadata(ann2, row)
    IN  [jam1 EXCEPT !.annotations = Append(@, ann3)]

(***************************************************************************)
(* The output directory                                                    *)
(***************************************************************************)
\* out_file of lines 106-107
OutFile(row) ==
    path_join(OutDir, replace(row.slice_file_name, WAV, JAMS_EXT))

EmptyDisk == [p \in {} |-> JAMS]

\* A directory that already holds a file from an earlier conversion.
StaleDisk == [p \in {path_join(OutDir, <<"a">> \o JAMS_EXT)} |-> JAMS]

\* jam.save that does not touch a file that exists.
save_keep(d, j, path) ==
    IF path \in DOMAIN d THEN d
    ELSE [p \in DOMAIN d \cup {path} |-> IF p = path THEN j ELSE d[p]]

\* jam.save that writes beside a file that exists instead of over it.
save_beside(d, j, path) ==
    LET target == IF path \in DOMAIN d THEN path \o <<"~">> ELSE path
    IN  [p \in DOMAIN d \cup {target} |-> IF p = target THEN j ELSE d[p]]

\* jam.save(path): the file at path is created or overwritten with the
\* serialized document.
save(d, j, path) ==
    [p \in DOMAIN d \cup {path} |-> IF p = path THEN j ELSE d[p]]

(***************************************************************************)
(* process_metadata                                                        *)
(***************************************************************************)
Event(op, i, path) == [op |-> op, idx |-> i, path |-> path]

Init ==
    /\ table \in Tables
    /\ pc = "load"
    /\ err = ""
    /\ df = <<>>
    /\ idx = 0
    /\ jam = NoJam
    /\ disk \in {EmptyDisk, StaleDisk}
    /\ run = 1
    /\ disk0 = disk
    /\ log = <<>>
    /\ docs = <<>>

\* The loop of line 100 takes the next row or ends.
LoopHead(d, i) == IF i < Len(d) THEN "construct" ELSE "done"

\* pd.read_csv returns the whole table.
ReadCsv ==
    /\ pc = "load"
    /\ df' = table
    /\ pc' = LoopHead(table, 0)
    /\ UNCHANGED <<table, err, idx, jam, disk, run, disk0, log, docs>>

\* A read_csv that hands out rows while it is still reading, and fails
\* part-way.
ReadCsvRaisesLate ==
    /\ pc \in {"load", "construct"}
    /\ pc' = "error"
    /\ err' = "ReadError"
    /\ UNCHANGED <<table, df, idx, jam, disk, run, disk0, log, docs>>

\* pd.read_csv raises: the file is missing or cannot be parsed.
ReadCsvRaises ==
    /\ pc = "load"
    /\ pc' = "error"
    /\ err' = "ReadError"
    /\ UNCHANGED <<table, df, idx, jam, disk, run, disk0, log, docs>>

\* jam = create_snippet_jam(row)
Construct ==
    /\ pc = "construct"
    /\ ~SubRaises(df[idx + 1])
    /\ jam' = create_snippet_jam(df[idx + 1])
    /\ docs' = Append(docs, jam')
    /\ log' = Append(log, Event("construct", idx, <<>>))
    /\ pc' = "save"
    /\ UNCHANGED <<table, err, df, idx, disk, run, disk0>>

\* A failure handler that removes what the run has written.
ConstructRaisesRollback ==
    /\ pc = "construct"
    /\ SubRaises(df[idx + 1])
    /\ pc' = "error"
    /\ err' = "MappingError"
    /\ disk' = disk0
    /\ UNCHANGED <<table, df, idx, jam, run, disk0, log, docs>>

\* create_snippet_jam(row) raises; nothing catches it.
ConstructRaises ==
    /\ pc = "construct"
    /\ SubRaises(df[idx + 1])
    /\ pc' = "error"
    /\ err' = "MappingError"
    /\ UNCHANGED <<table, df, idx, jam, disk, run, disk0, log, docs>>

\* jam.save(out_file), and the loop goes on.
Save ==
    /\ pc = "save"
    /\ LET out_file == OutFile(df[idx + 1])
       IN  /\ disk' = save(disk, jam, out_file)
           /\ log' = Append(log, Event("save", idx, out_file))
    /\ idx' = idx + 1
    /\ pc' = LoopHead(df, idx + 1)
    /\ UNCHANGED <<table, err, df, jam, run, disk0, docs>>

\* jam.save(out_file) raises (the directory is missing or not writable, the
\* document does not validate); nothing catches it.
SaveRaises ==
    /\ pc = "save"
    /\ pc' = "error"
    /\ err' = "WriteError"
    /\ UNCHANGED <<table, df, idx, jam, disk, run, disk0, log, docs>>

\* process_metadata is called again with the same arguments.
Rerun ==
    /\ pc = "done"
    /\ run < MaxRuns
    /\ run' = run + 1
    /\ pc' = "load"
    /\ df' = <<>>
    /\ idx' = 0
    /\ jam' = NoJam
    /\ disk0' = disk
    /\ log' = <<>>
    /\ docs' = <<>>
    /\ UNCHANGED <<table, err, disk>>

Next ==
    \/ ReadCsv
    \/ ReadCsvRaises
    \/ Construct
    \/ ConstructRaises
    \/ Save
    \/ SaveRaises
    \/ Rerun

Spec == Init /\ [][Next]_vars

(***************************************************************************)
(* Properties                                                              *)
(***************************************************************************)
\* What the history variables say about the current call.
SaveEvents == { n \in DOMAIN log : log[n].op = "save" }
SavedPaths == { log[n].path : n \in SaveEvents }
SavedRows == { log[n].idx : n \in SaveEvents }
ConstructedRows == { log[n].idx : n \in DOMAIN log \ SaveEvents }

\* The path row i (counted from 1) was written to; defined once it is saved.
PathOf(i) == log[2 * i].path

\* The last of the rows 1..k written to the path of row i.
LastWriter(i, k) ==
    CHOOSE j \in i..k :
        /\ PathOf(j) = PathOf(i)
        /\ \A m \in (j + 1)..k : PathOf(m) # PathOf(i)

\* C1: when the run aborts at row k (construction or save raised), every row
\* before k has been written exactly once and its file is on disk with the
\* content of the last of those rows written to it, nothing the run did has
\* been undone, nothing has been written for row k, nothing was attempted
\* for a later row, and no row before the loop position is ever skipped.
C1_AbortKeepsEarlierRows ==
    /\ SavedRows = 0..(idx - 1)
    /\ Cardinality(SaveEvents) = idx
    /\ (pc = "error" /\ err \in {"MappingError", "WriteError"}) =>
          /\ \A i \in 1..idx :
                /\ PathOf(i) \in DOMAIN disk
                /\ disk[PathOf(i)] = docs[LastWriter(i, idx)]
          /\ DOMAIN disk = DOMAIN disk0 \cup SavedPaths
          /\ \A p \in DOMAIN disk0 \ SavedPaths : disk[p] = disk0[p]
          /\ idx \notin SavedRows
          /\ err = "MappingError" => idx \notin ConstructedRows
          /\ \A n \in DOMAIN log : log[n].idx <= idx
          /\ idx < Len(df)

C1_Witness ==
    /\ pc = "error"
    /\ err = "MappingError"
    /\ idx = 1
    /\ Len(df) = 3
    /\ disk # disk0

\* C2 (as claimed): the file a row is written to is named by the row's
\* slice_file_name with its trailing ".wav" replaced by ".jams" and every
\* character before that suffix kept.
C2_OnlyTrailingSuffixReplaced ==
    \A n \in SaveEvents :
        LET name == df[log[n].idx + 1].slice_file_name
        IN  EndsWith(name, WAV) =>
                log[n].path =
                    path_join(OutDir,
                              SubSeq(name, 1, Len(name) - Len(WAV)) \o JAMS_EXT)

\* C3 (as claimed): a run that completes over n rows has built n documents
\* and written n different files.
C3_OneFilePerRow ==
    pc = "done" =>
        /\ Len(docs) = Len(df)
        /\ Cardinality(SavedPaths) = Len(df)

\* C4: the file metadata's duration, the annotation's duration and the
\* event's duration of every document built are the row's end minus its
\* start, also when that is negative.
C4_DurationsAreEndMinusStart ==
    \A i \in DOMAIN docs :
        LET d == df[i].end.n - df[i].start.n
            ann == docs[i].annotations[1]
        IN  /\ docs[i].file_metadata.duration = d
            /\ ann.duration = d
            /\ ann.data[1].duration = d

C4_Witness ==
    \E i \in DOMAIN docs :
        /\ df[i].end.n < df[i].start.n
        /\ docs[i].file_metadata.duration < 0

\* C5: the sandbox of the annotation of every document built has exactly the
\* columns of its row, each with the row's value.
C5_SandboxIsTheRow ==
    \A i \in DOMAIN docs :
        LET sb == docs[i].annotations[1].sandbox
        IN  /\ DOMAIN sb = DOMAIN df[i]
            /\ DOMAIN sb = Columns
            /\ \A c \in DOMAIN df[i] : sb[c] = df[i][c]

C5_Witness ==
    \E i \in DOMAIN docs :
        /\ df[i].fold = 1
        /\ docs[i].annotations[1].sandbox["fold"] = 1

\* C6: every document built holds exactly one annotation, of namespace
\* tag_open, with exactly one event, at time 0, of confidence 1 and with the
\* row's class as value, whatever the row's start and end.
C6_OneEventAtTimeZero ==
    \A i \in DOMAIN docs :
        /\ Len(docs[i].annotations) = 1
        /\ docs[i].annotations[1].namespace = "tag_open"
        /\ Len(docs[i].annotations[1].data) = 1
        /\ docs[i].annotations[1].data[1].time = 0
        /\ docs[i].annotations[1].data[1].confidence = 1
        /\ docs[i].annotations[1].data[1].value = df[i].class

C6_Witness ==
    \E i \in DOMAIN docs :
        /\ df[i].start.n # 0
        /\ df[i].class = "dog_bark"
        /\ docs[i].annotations[1].data[1].time = 0

\* C7: when loading the table fails, no row has been mapped and no file has
\* been written by the run; and once anything has been constructed the whole
\* table is in memory.
C7_ReadErrorBeforeAnyOutput ==
    /\ (pc = "error" /\ err = "ReadError") =>
          /\ log = <<>>
          /\ docs = <<>>
          /\ disk = disk0
          /\ df = <<>>
    /\ log # <<>> => df = table

C7_Witness ==
    /\ pc = "error"
    /\ err = "ReadError"
    /\ Len(table) > 1
    /\ run = 1

\* C8: a second complete run over the same table and directory leaves the
\* directory as the first left it: the same files with the same content.
C8_SecondRunChangesNothing ==
    (pc = "done" /\ run > 1) => disk = disk0

C8_Witness ==
    /\ pc = "done"
    /\ run > 1
    /\ Len(df) > 1
    /\ Cardinality(SavedPaths) > 1
    /\ disk = disk0

====
